---- MODULE Spec2Model ----
(***************************************************************************)
(* Model of the pulse-mvp action extractor: the text cleaner tidy, its     *)
(* client-side twin cleanFollowUp, the heuristic extractor mockExtract and *)
(* the model-backed extractor callOpenAIExtract.                           *)
(*                                                                         *)
(* A text is a sequence of one-character strings.  Regular expressions of  *)
(* the source are modelled by operators that compute the match the         *)
(* JavaScript engine finds (leftmost, greedy, with backtracking).          *)
(***************************************************************************)
EXTENDS Integers, Sequences, FiniteSets, TLC

VARIABLES
  strategy,  \* the function called: "heuristic" (mockExtract), "model"
             \* (callOpenAIExtract) or "tidy" (tidy on its own)
  pc,        \* the position in the called function
  text,      \* the parameter text
  lines,     \* mockExtract: the trimmed non-empty lines
  idx,       \* mockExtract: the index of the line the loop is at
  tasks,     \* mockExtract: the tasks pushed so far
  followUp,  \* mockExtract: the local followUp; the result of tidy
  again,     \* the result of tidy applied to a result of tidy
  shown,     \* index.tsx: the followUp after cleanFollowUp
  apiKey,    \* OPENAI_API_KEY
  content,   \* callOpenAIExtract: the content of the response
  requests,  \* the requests sent to the generation service
  error,     \* the message of the Error thrown
  result     \* the ResponseBody returned

vars == <<strategy, pc, text, lines, idx, tasks, followUp, again, shown,
          apiKey, content, requests, error, result>>

(***************************************************************************)
(* Character classes of the regular expressions.                           *)
(***************************************************************************)
Upper == {"A","B","C","D","E","F","G","H","I","J","K","L","M",
          "N","O","P","Q","R","S","T","U","V","W","X","Y","Z"}

Lower == {"a","b","c","d","e","f","g","h","i","j","k","l","m",
          "n","o","p","q","r","s","t","u","v","w","x","y","z"}

Digit == {"0","1","2","3","4","5","6","7","8","9"}

\* \s of the regular expressions, and the characters trim() removes
IsSpace(c) == c \in {" ", "\t", "\n", "\r"}

\* [.,;:!?]
IsPunct(c) == c \in {".", ",", ";", ":", "!", "?"}

\* [A-Za-z]
IsLetter(c) == c \in Upper \cup Lower

\* \w, the characters \b tells apart from the others
IsWordChar(c) == c \in Upper \cup Lower \cup Digit \cup {"_"}

UpperOf == [c \in Lower |->
              CASE c = "a" -> "A" [] c = "b" -> "B" [] c = "c" -> "C" [] c = "d" -> "D"
                [] c = "e" -> "E" [] c = "f" -> "F" [] c = "g" -> "G" [] c = "h" -> "H"
                [] c = "i" -> "I" [] c = "j" -> "J" [] c = "k" -> "K" [] c = "l" -> "L"
                [] c = "m" -> "M" [] c = "n" -> "N" [] c = "o" -> "O" [] c = "p" -> "P"
                [] c = "q" -> "Q" [] c = "r" -> "R" [] c = "s" -> "S" [] c = "t" -> "T"
                [] c = "u" -> "U" [] c = "v" -> "V" [] c = "w" -> "W" [] c = "x" -> "X"
                [] c = "y" -> "Y" [] c = "z" -> "Z"]

\* two characters are equal under the i flag
SameFold(c, d) == \/ c = d
                  \/ c \in Lower /\ UpperOf[c] = d
                  \/ d \in Lower /\ UpperOf[d] = c

(***************************************************************************)
(* Helpers on texts.                                                       *)
(***************************************************************************)
\* first index >= i of s whose character is not whitespace, Len(s)+1 if none
SpaceRunEnd(s, i) ==
  CHOOSE j \in i..(Len(s) + 1) :
    /\ j > Len(s) \/ ~ IsSpace(s[j])
    /\ \A k \in i..(j - 1) : IsSpace(s[k])

\* the characters out[i] at the indices i where keep[i] is true, in order
KeepWhere(out, keep) ==
  LET marked == SelectSeq([i \in 1..Len(out) |-> <<keep[i], out[i]>>],
                          LAMBDA p : p[1])
  IN  [k \in 1..Len(marked) |-> marked[k][2]]

\* String.prototype.trim: the text from its first to its last character
\* that is not whitespace
Trim(s) ==
  LET inked == {i \in 1..Len(s) : ~ IsSpace(s[i])}
  IN  IF inked = {} THEN << >>
      ELSE SubSeq(s, CHOOSE i \in inked : \A j \in inked : i <= j,
                     CHOOSE i \in inked : \A j \in inked : j <= i)

(***************************************************************************)
(* tidy (extract.ts) and cleanFollowUp (index.tsx): the three replaces in  *)
(* the order of the source, then trim.                                     *)
(***************************************************************************)
\* .replace(/\s+([.,;:!?])/g, "$1"): a whitespace run that a punctuation
\* mark follows is removed, the mark kept
RemoveSpaceBeforePunct(s) ==
  LET keep == [i \in 1..Len(s) |->
                ~ (/\ IsSpace(s[i])
                   /\ SpaceRunEnd(s, i) <= Len(s)
                   /\ IsPunct(s[SpaceRunEnd(s, i)]))]
  IN  KeepWhere(s, keep)

\* .replace(/([.]){2,}/g, "."): of a run of periods only the first stays
CollapsePeriods(s) ==
  LET keep == [i \in 1..Len(s) |-> ~ (s[i] = "." /\ i > 1 /\ s[i - 1] = ".")]
  IN  KeepWhere(s, keep)

\* .replace(/\s{2,}/g, " "): a run of two or more whitespace characters
\* becomes one space; a single whitespace character stays as it is
CollapseSpaces(s) ==
  LET inRun(i) == /\ IsSpace(s[i])
                  /\ \/ i > 1 /\ IsSpace(s[i - 1])
                     \/ i < Len(s) /\ IsSpace(s[i + 1])
      out  == [i \in 1..Len(s) |-> IF inRun(i) THEN " " ELSE s[i]]
      keep == [i \in 1..Len(s) |-> ~ (inRun(i) /\ i > 1 /\ IsSpace(s[i - 1]))]
  IN  KeepWhere(out, keep)

TidySwapped(s) ==
  Trim(CollapseSpaces(RemoveSpaceBeforePunct(CollapsePeriods(s))))

tidy(s) ==
  Trim(CollapseSpaces(CollapsePeriods(RemoveSpaceBeforePunct(s))))

cleanFollowUp(s) ==
  Trim(CollapseSpaces(CollapsePeriods(RemoveSpaceBeforePunct(s))))

(***************************************************************************)
(* Matching helpers for the regular expressions of mockExtract.            *)
(***************************************************************************)
\* the literal w occurs in s at index i, letters compared under the i flag
MatchAt(s, i, w) ==
  /\ i >= 1
  /\ i + Len(w) - 1 <= Len(s)
  /\ \A k \in 1..Len(w) : SameFold(s[i + k - 1], w[k])

\* \b between s[p-1] and s[p]: exactly one side is a word character
WordBoundary(s, p) ==
  (p > 1 /\ p - 1 <= Len(s) /\ IsWordChar(s[p - 1]))
    # (p >= 1 /\ p <= Len(s) /\ IsWordChar(s[p]))

\* first index >= i of s whose character is not in the class, Len(s)+1 if none
RunEnd(s, i, class) ==
  CHOOSE j \in i..(Len(s) + 1) :
    /\ j > Len(s) \/ s[j] \notin class
    /\ \A k \in i..(j - 1) : s[k] \in class

\* smallest element of a non-empty set of indices (the leftmost match)
Leftmost(S) == CHOOSE i \in S : \A j \in S : i <= j

\* the value of an absent (undefined) field
None == <<"undefined">>

\* /^[-*]\s*/.test(line)
StartsWithBullet(line) == line # << >> /\ line[1] \in {"-", "*"}

\* the alternatives of /\b(action|action:|please|will|assign|assigned|due|deliver|todo)\b/i
Keywords == { <<"a","c","t","i","o","n">>, <<"a","c","t","i","o","n",":">>, <<"p","l","e","a","s","e">>, <<"w","i","l","l">>, <<"a","s","s","i","g","n">>,
              <<"a","s","s","i","g","n","e","d">>, <<"d","u","e">>, <<"d","e","l","i","v","e","r">>, <<"t","o","d","o">> }

\* /\b(action|...|todo)\b/i.test(line)
HasKeyword(line) ==
  \E i \in 1..Len(line) : \E w \in Keywords :
    /\ WordBoundary(line, i)
    /\ MatchAt(line, i, w)
    /\ WordBoundary(line, i + Len(w))

IsActionLineBulletOnly(line) == StartsWithBullet(line)

\* the condition of the if in the loop of mockExtract
IsActionLine(line) == StartsWithBullet(line) \/ HasKeyword(line)

\* line.replace(/^[-*]\s*/g, "")
StripBullet(line) ==
  IF StartsWithBullet(line)
  THEN SubSeq(line, SpaceRunEnd(line, 2), Len(line))
  ELSE line

\* the connectors of /\b(?:assigned to|assign to|by)\s+([A-Z][a-zA-Z]+)/i
AssignConnectors == { <<"a","s","s","i","g","n","e","d"," ","t","o">>, <<"a","s","s","i","g","n"," ","t","o">>, <<"b","y">> }

\* where the explicit-phrase pattern matches at index i of s: the connector
\* after a word boundary, whitespace, then a run of two or more letters
\* (under the i flag [A-Z] accepts any letter)
PhraseMatchAt(s, i) ==
  \E w \in AssignConnectors :
    /\ WordBoundary(s, i)
    /\ MatchAt(s, i, w)
    /\ LET p == i + Len(w)
           q == SpaceRunEnd(s, p)
       IN  q > p /\ RunEnd(s, q, Upper \cup Lower) >= q + 2

\* capture group 1 of the explicit-phrase match at index i
PhraseCapture(s, i) ==
  LET w == CHOOSE c \in AssignConnectors : MatchAt(s, i, c)
      q == SpaceRunEnd(s, i + Len(w))
  IN  SubSeq(s, q, RunEnd(s, q, Upper \cup Lower) - 1)

\* /\b([A-Z][a-z]{2,})\b/ at index i of s: an uppercase letter after a word
\* boundary, two or more lowercase letters, and a word boundary after them
CapitalMatchAt(s, i) ==
  /\ WordBoundary(s, i)
  /\ s[i] \in Upper
  /\ LET e == RunEnd(s, i + 1, Lower)
     IN  e >= i + 3 /\ WordBoundary(s, e)

CapitalCapture(s, i) == SubSeq(s, i, RunEnd(s, i + 1, Lower) - 1)

\* cleaned.match(phrase) || cleaned.match(capital), then assigneeMatch[1]
Assignee(cleaned) ==
  LET P == {i \in 1..Len(cleaned) : PhraseMatchAt(cleaned, i)}
      C == {i \in 1..Len(cleaned) : CapitalMatchAt(cleaned, i)}
  IN  IF P # {} THEN PhraseCapture(cleaned, Leftmost(P))
      ELSE IF C # {} THEN CapitalCapture(cleaned, Leftmost(C))
      ELSE None

\* the connectors and the class of /\b(by|before|on|due)\s+([A-Za-z0-9 ,.-]+)/i
DueConnectors == { <<"b","y">>, <<"b","e","f","o","r","e">>, <<"o","n">>, <<"d","u","e">> }

DueClass == Upper \cup Lower \cup Digit \cup {" ", ",", ".", "-"}

\* the indices where capture group 2 can start after the connector that ends
\* before p: \s+ takes one or more characters of the whitespace run at p and
\* the class must accept the character after them
DueStarts(s, p) ==
  {b \in (p + 1)..SpaceRunEnd(s, p) : b <= Len(s) /\ s[b] \in DueClass}

DueMatchAt(s, i) ==
  \E w \in DueConnectors :
    /\ WordBoundary(s, i)
    /\ MatchAt(s, i, w)
    /\ DueStarts(s, i + Len(w)) # {}

\* capture group 2: \s+ is greedy, so the capture starts as far right as it can
DueCapture(s, i) ==
  LET w == CHOOSE c \in DueConnectors : MatchAt(s, i, c)
      S == DueStarts(s, i + Len(w))
      b == CHOOSE x \in S : \A y \in S : y <= x
  IN  SubSeq(s, b, RunEnd(s, b, DueClass) - 1)

Due(cleaned) ==
  LET D == {i \in 1..Len(cleaned) : DueMatchAt(cleaned, i)}
  IN  IF D # {} THEN DueCapture(cleaned, Leftmost(D)) ELSE None

\* the length above which a title is shortened, and the length of the part kept
TitleMax == 250

TitleKeep == 247

Ellipsis == <<".",".",".">>

TitleNoEllipsis(cleaned) ==
  IF Len(cleaned) > TitleMax THEN SubSeq(cleaned, 1, TitleMax) ELSE cleaned

\* cleaned.length > 250 ? cleaned.slice(0, 247) + "..." : cleaned
Title(cleaned) ==
  IF Len(cleaned) > TitleMax THEN SubSeq(cleaned, 1, TitleKeep) \o Ellipsis ELSE cleaned

\* the Task pushed for an action line
TaskOf(line) ==
  LET cleaned == StripBullet(line)
  IN  [title |-> Title(cleaned), assignee |-> Assignee(cleaned), due |-> Due(cleaned)]

\* "Review meeting notes and propose next steps"
FallbackTitle == <<"R","e","v","i","e","w"," ","m","e","e","t","i","n","g"," ","n","o","t","e","s"," ","a","n","d"," ","p","r","o","p","o","s","e"," ","n","e","x","t"," ","s","t","e","p","s">>

\* { title: "Review meeting notes and propose next steps" }
FallbackTask == [title |-> FallbackTitle, assignee |-> None, due |-> None]

\* text.split("\n"): the segments between the line feeds, empty ones included
SplitOnLineFeed(s) ==
  LET feeds == {i \in 1..Len(s) : s[i] = "\n"}
      \* the index of the k-th line feed; 0 and Len(s)+1 bracket the text
      feed(k) == IF k = 0 THEN 0
                 ELSE IF k > Cardinality(feeds) THEN Len(s) + 1
                 ELSE CHOOSE i \in feeds : Cardinality({j \in feeds : j <= i}) = k
  IN  [k \in 1..(Cardinality(feeds) + 1) |-> SubSeq(s, feed(k - 1) + 1, feed(k) - 1)]

\* text.split("\n").map((l) => l.trim()).filter(Boolean)
SplitLines(s) ==
  LET raw == SplitOnLineFeed(s)
      trimmed == [k \in 1..Len(raw) |-> Trim(raw[k])]
  IN  SelectSeq(trimmed, LAMBDA l : l # << >>)

\* tasks.map((t) => t.title).join("; ")
RECURSIVE JoinTitles(_)
JoinTitles(ts) ==
  IF ts = << >> THEN << >>
  ELSE IF Len(ts) = 1 THEN ts[1].title
  ELSE ts[1].title \o <<";"," ">> \o JoinTitles(Tail(ts))

\* "Thanks everyone for the meeting. Next actions: "
Preamble == <<"T","h","a","n","k","s"," ","e","v","e","r","y","o","n","e"," ","f","o","r"," ","t","h","e"," ","m","e","e","t","i","n","g","."," ","N","e","x","t"," ","a","c","t","i","o","n","s",":"," ">>

\* ". Please confirm owners and timelines."
Closing == <<"."," ","P","l","e","a","s","e"," ","c","o","n","f","i","r","m"," ","o","w","n","e","r","s"," ","a","n","d"," ","t","i","m","e","l","i","n","e","s",".">>

FollowUpUntidied(ts) == Preamble \o JoinTitles(ts) \o Closing

\* the template of mockExtract, passed through tidy
FollowUpOf(ts) == tidy(Preamble \o JoinTitles(ts) \o Closing)

(***************************************************************************)
(* Input texts.                                                            *)
(***************************************************************************)
\* all sequences over S of length at most n
SeqsUpTo(S, n) == UNION {[1..k -> S] : k \in 0..n}

RECURSIVE Concat(_)
Concat(ss) == IF ss = << >> THEN << >> ELSE Head(ss) \o Concat(Tail(ss))

\* the lines joined by line feeds
RECURSIVE JoinLines(_)
JoinLines(ls) ==
  IF ls = << >> THEN << >>
  ELSE IF Len(ls) = 1 THEN ls[1]
  ELSE ls[1] \o <<"\n">> \o JoinLines(Tail(ls))

Rep(c, n) == [i \in 1..n |-> c]

MaxPieces == 3

MaxLines == 2

Slack == 2

\* fragments that short texts are put together from:
\* "-", "*", " ", "\n", ".", "will", " by", " next", " Bob"
Pieces == { <<"-">>, <<"*">>, <<" ">>, <<"\n">>, <<".">>, <<"w","i","l","l">>, <<" ","b","y">>, <<" ","n","e","x","t">>, <<" ","B","o","b">> }

PieceTexts == {Concat(ps) : ps \in SeqsUpTo(Pieces, MaxPieces)}

\* SAMPLE of index.tsx, line by line
\* "- Action: Integrate payments API by next Wednesday. Assigned to Ravi."
SampleLine1 == <<"-"," ","A","c","t","i","o","n",":"," ","I","n","t","e","g","r","a","t","e"," ","p","a","y","m","e","n","t","s"," ","A","P","I"," ","b","y"," ","n","e","x","t"," ","W","e","d","n","e","s","d","a","y","."," ","A","s","s","i","g","n","e","d"," ","t","o"," ","R","a","v","i",".">>

\* "- Please prepare the onboarding doc by Friday. Alice will lead."
SampleLine2 == <<"-"," ","P","l","e","a","s","e"," ","p","r","e","p","a","r","e"," ","t","h","e"," ","o","n","b","o","a","r","d","i","n","g"," ","d","o","c"," ","b","y"," ","F","r","i","d","a","y","."," ","A","l","i","c","e"," ","w","i","l","l"," ","l","e","a","d",".">>

\* "We will discuss metrics next meeting. John will propose KPIs."
SampleLine3 == <<"W","e"," ","w","i","l","l"," ","d","i","s","c","u","s","s"," ","m","e","t","r","i","c","s"," ","n","e","x","t"," ","m","e","e","t","i","n","g","."," ","J","o","h","n"," ","w","i","l","l"," ","p","r","o","p","o","s","e"," ","K","P","I","s",".">>

SAMPLE == JoinLines(<<SampleLine1, SampleLine2, SampleLine3>>)

\* "- Action: Ship the report by Monday. Assigned to Priya."
PriyaLine == <<"-"," ","A","c","t","i","o","n",":"," ","S","h","i","p"," ","t","h","e"," ","r","e","p","o","r","t"," ","b","y"," ","M","o","n","d","a","y","."," ","A","s","s","i","g","n","e","d"," ","t","o"," ","P","r","i","y","a",".">>

\* "We met on Tuesday about the roadmap."
RoadmapLine == <<"W","e"," ","m","e","t"," ","o","n"," ","T","u","e","s","d","a","y"," ","a","b","o","u","t"," ","t","h","e"," ","r","o","a","d","m","a","p",".">>

\* the lines above, a bullet alone, a blank line, and "* todo:  wait ..\r"
WholeLines == { SampleLine1, SampleLine2, SampleLine3, PriyaLine, RoadmapLine,
                <<"-">>, <<" "," ">>, <<"*"," ","t","o","d","o",":"," "," ","w","a","i","t"," ",".",".","\r">> }

LineTexts == {JoinLines(ls) : ls \in SeqsUpTo(WholeLines, MaxLines)}

\* lines whose cleaned text is about TitleMax characters long
LongTexts ==
  { pre \o Rep("a", n) \o post :
      pre \in { <<"-"," ">>, <<"w","i","l","l"," ">> },
      n \in (TitleKeep - Slack)..(TitleMax + Slack),
      post \in { << >>, <<" ","b">> } }

\* the notes of SAMPLE with a line of chatter and a blank line among them
ChatterNotes == JoinLines(<<SampleLine1, RoadmapLine, << >>, SampleLine3>>)

Texts == PieceTexts \cup LineTexts \cup LongTexts \cup {SAMPLE, ChatterNotes}

(***************************************************************************)
(* callOpenAIExtract.  The content of a response is a sequence of JSON     *)
(* lexemes (whitespace between them dropped): the punctuators, string      *)
(* literals, a number, null, an array literal, and a word of prose that is *)
(* no JSON lexeme.                                                         *)
(***************************************************************************)
StringToks == {"\"tasks\"", "\"followUp\"", "\"ok  .\""}

\* the text a string literal denotes
StringText(tok) ==
  CASE tok = "\"tasks\"" -> <<"t","a","s","k","s">>
    [] tok = "\"followUp\"" -> <<"f","o","l","l","o","w","U","p">>
    [] tok = "\"ok  .\"" -> <<"o","k"," "," ",".">>

\* the task of the array literal [{"title":"Do"}]
ModelTask == [title |-> <<"D","o">>, assignee |-> None, due |-> None]

\* the value of a lexeme that is a whole JSON value
IsScalarTok(tok) == tok \in StringToks \cup {"1", "null", "[task]"}

ScalarValue(tok) ==
  CASE tok \in StringToks -> [kind |-> "string", text |-> StringText(tok)]
    [] tok = "1" -> [kind |-> "number"]
    [] tok = "null" -> [kind |-> "null"]
    [] tok = "[task]" -> [kind |-> "array", items |-> <<ModelTask>>]

BadParse == [ok |-> FALSE]

\* JSON.parse on the lexemes from index i: a value and the index after it.
\* An object is the sequence of its members <<key, value>> in source order.
RECURSIVE ParseValue(_, _), ParseMembers(_, _, _)
ParseValue(t, i) ==
  IF i > Len(t) THEN BadParse
  ELSE IF IsScalarTok(t[i])
       THEN [ok |-> TRUE, val |-> ScalarValue(t[i]), next |-> i + 1]
  ELSE IF t[i] = "{"
       THEN IF i + 1 <= Len(t) /\ t[i + 1] = "}"
            THEN [ok |-> TRUE, val |-> [kind |-> "object", members |-> << >>],
                  next |-> i + 2]
            ELSE ParseMembers(t, i + 1, << >>)
  ELSE BadParse

ParseMembers(t, i, acc) ==
  IF i + 1 <= Len(t) /\ t[i] \in StringToks /\ t[i + 1] = ":"
  THEN LET v == ParseValue(t, i + 2)
       IN  IF ~ v.ok THEN BadParse
           ELSE LET acc2 == Append(acc, <<StringText(t[i]), v.val>>)
                IN  IF v.next <= Len(t) /\ t[v.next] = ","
                    THEN ParseMembers(t, v.next + 1, acc2)
                    ELSE IF v.next <= Len(t) /\ t[v.next] = "}"
                    THEN [ok |-> TRUE, val |-> [kind |-> "object", members |-> acc2],
                          next |-> v.next + 1]
                    ELSE BadParse
  ELSE BadParse

\* JSON.parse(content): the whole content must be one value
JsonParse(t) ==
  LET r == ParseValue(t, 1)
  IN  IF r.ok /\ r.next = Len(t) + 1 THEN [ok |-> TRUE, val |-> r.val] ELSE BadParse

\* parsed.key: the member of an object (the last one of that name),
\* undefined for a missing member and for a value with no such property
Undefined == [kind |-> "undefined"]

Property(v, key) ==
  IF v.kind # "object" THEN Undefined
  ELSE LET at == {k \in 1..Len(v.members) : v.members[k][1] = key}
       IN  IF at = {} THEN Undefined
           ELSE v.members[CHOOSE k \in at : \A j \in at : j <= k][2]

\* x ?? d
Coalesce(x, d) == IF x.kind \in {"undefined", "null"} THEN d ELSE x

\* what is returned as tasks: the items of an array, any other value as it is
TasksOut(v) == IF v.kind = "array" THEN v.items ELSE v

\* the body of each try block: JSON.parse, then
\* { tasks: parsed.tasks ?? [], followUp: tidy(parsed.followUp ?? "") }.
\* It throws when the parse fails, when parsed is null (no property can be
\* read) and when followUp is not a string (tidy calls text.replace).
TryExtract(t) ==
  LET p == JsonParse(t)
  IN  IF ~ p.ok THEN BadParse
      ELSE IF p.val.kind = "null" THEN BadParse
      ELSE LET tk == Coalesce(Property(p.val, <<"t","a","s","k","s">>),
                              [kind |-> "array", items |-> << >>])
               fu == Coalesce(Property(p.val, <<"f","o","l","l","o","w","U","p">>),
                              [kind |-> "string", text |-> << >>])
           IN  IF fu.kind # "string" THEN BadParse
               ELSE [ok |-> TRUE,
                     body |-> [tasks |-> TasksOut(tk), followUp |-> tidy(fu.text)]]

\* content.match(/\{[\s\S]*\}/): from the first "{" to the last "}" after it
HasBraceMatch(t) ==
  \E a \in 1..Len(t) : \E b \in 1..Len(t) : a < b /\ t[a] = "{" /\ t[b] = "}"

BraceMatch(t) ==
  LET a == CHOOSE i \in 1..Len(t) : t[i] = "{" /\ \A j \in 1..(i - 1) : t[j] # "{"
      b == CHOOSE i \in 1..Len(t) : t[i] = "}" /\ \A j \in (i + 1)..Len(t) : t[j] # "}"
  IN  SubSeq(t, a, b)

\* the try/catch of callOpenAIExtract: the direct parse, then the parse of
\* the brace match; ok is false when the function throws
ParseResponse(t) ==
  IF TryExtract(t).ok THEN TryExtract(t)
  ELSE IF HasBraceMatch(t) /\ TryExtract(BraceMatch(t)).ok
       THEN TryExtract(BraceMatch(t))
  ELSE BadParse

MaxContent == 4

ContentPieces ==
  { <<"{">>, <<"}">>, <<",">>, <<"Here">>, <<"1">>, <<"null">>,
    <<"\"tasks\"", ":", "[task]">>,
    <<"\"followUp\"", ":", "\"ok  .\"">>,
    <<"\"followUp\"", ":", "1">> }

Contents == {Concat(ps) : ps \in SeqsUpTo(ContentPieces, MaxContent)}

NoError == "no error"

KeyNotSet == "OpenAI API key not set"

FetchFailed == "fetch failed"

OpenAIError == "OpenAI error: status body"

NotParsed == "OpenAI response could not be parsed as JSON"

KeyNeverMissing(key) == FALSE

\* !OPENAI_API_KEY
KeyMissing(key) == key = << >>

(***************************************************************************)
(* The state: one call of mockExtract or of callOpenAIExtract, followed by *)
(* the client's display of the result.                                     *)
(***************************************************************************)
NoResult == [tasks |-> << >>, followUp |-> None]

ApiKeys == { << >>, <<"s","k">> }

InitHeuristic ==
  /\ strategy = "heuristic"
  /\ pc = "split"
  /\ text \in Texts
  /\ apiKey = << >>

InitModel ==
  /\ strategy = "model"
  /\ pc = "call"
  /\ text \in {SAMPLE, RoadmapLine}
  /\ apiKey \in ApiKeys

Init ==
  /\ InitHeuristic \/ InitModel
  /\ lines = << >>
  /\ idx = 1
  /\ tasks = << >>
  /\ followUp = None
  /\ again = None
  /\ shown = None
  /\ content = None
  /\ requests = << >>
  /\ error = NoError
  /\ result = NoResult

\* const lines = text.split("\n").map(trim).filter(Boolean); const tasks = []
Split ==
  /\ pc = "split"
  /\ lines' = SplitLines(text)
  /\ idx' = 1
  /\ tasks' = << >>
  /\ pc' = "loop"
  /\ UNCHANGED <<strategy, text, followUp, again, shown, apiKey, content, requests, error, result>>

\* one iteration of the for loop on an action line: tasks.push({title, assignee, due})
PushTask ==
  /\ pc = "loop"
  /\ idx <= Len(lines)
  /\ IsActionLine(lines[idx])
  /\ tasks' = Append(tasks, TaskOf(lines[idx]))
  /\ idx' = idx + 1
  /\ UNCHANGED <<strategy, pc, text, lines, followUp, again, shown, apiKey, content, requests, error, result>>

\* one iteration of the for loop on a line the if rejects
SkipLine ==
  /\ pc = "loop"
  /\ idx <= Len(lines)
  /\ ~ IsActionLine(lines[idx])
  /\ idx' = idx + 1
  /\ UNCHANGED <<strategy, pc, text, lines, tasks, followUp, again, shown, apiKey, content, requests, error, result>>

FallbackNever ==
  /\ pc = "loop"
  /\ idx > Len(lines)
  /\ pc' = "compose"
  /\ UNCHANGED <<strategy, text, lines, idx, tasks, followUp, again, shown, apiKey, content, requests, error, result>>

\* if (tasks.length === 0) tasks.push({ title: "Review meeting notes ..." })
Fallback ==
  /\ pc = "loop"
  /\ idx > Len(lines)
  /\ tasks' = IF Len(tasks) = 0 THEN <<FallbackTask>> ELSE tasks
  /\ pc' = "compose"
  /\ UNCHANGED <<strategy, text, lines, idx, followUp, again, shown, apiKey, content, requests, error, result>>

\* followUp = tidy(template); return { tasks, followUp }
Compose ==
  /\ pc = "compose"
  /\ followUp' = FollowUpOf(tasks)
  /\ result' = [tasks |-> tasks, followUp |-> FollowUpOf(tasks)]
  /\ pc' = "returned"
  /\ UNCHANGED <<strategy, text, lines, idx, tasks, again, shown, apiKey, content, requests, error>>

\* if (!OPENAI_API_KEY) throw new Error("OpenAI API key not set")
ThrowKeyNotSet ==
  /\ pc = "call"
  /\ KeyMissing(apiKey)
  /\ error' = KeyNotSet
  /\ pc' = "threw"
  /\ UNCHANGED <<strategy, text, lines, idx, tasks, followUp, again, shown, apiKey, content, requests, result>>

\* fetch("https://api.openai.com/v1/chat/completions", ...) with the bearer
\* credential and the prompt that embeds the notes
SendRequest ==
  /\ pc = "call"
  /\ ~ KeyMissing(apiKey)
  /\ requests' = Append(requests, [bearer |-> apiKey, notes |-> text])
  /\ pc' = "fetch"
  /\ UNCHANGED <<strategy, text, lines, idx, tasks, followUp, again, shown, apiKey, content, error, result>>

\* the awaited fetch rejects: the service cannot be reached
FetchRejects ==
  /\ pc = "fetch"
  /\ error' = FetchFailed
  /\ pc' = "threw"
  /\ UNCHANGED <<strategy, text, lines, idx, tasks, followUp, again, shown, apiKey, content, requests, result>>

\* if (!resp.ok) throw new Error(`OpenAI error: ${resp.status} ${body}`)
ThrowNotOk ==
  /\ pc = "fetch"
  /\ error' = OpenAIError
  /\ pc' = "threw"
  /\ UNCHANGED <<strategy, text, lines, idx, tasks, followUp, again, shown, apiKey, content, requests, result>>

\* resp.ok: content = data?.choices?.[0]?.message?.content ?? ""
ReceiveContent ==
  /\ pc = "fetch"
  /\ \E c \in Contents : content' = c
  /\ pc' = "parse"
  /\ UNCHANGED <<strategy, text, lines, idx, tasks, followUp, again, shown, apiKey, requests, error, result>>

\* one of the two parses succeeds: return { tasks, followUp }
ReturnParsed ==
  /\ pc = "parse"
  /\ ParseResponse(content).ok
  /\ result' = ParseResponse(content).body
  /\ pc' = "returned"
  /\ UNCHANGED <<strategy, text, lines, idx, tasks, followUp, again, shown, apiKey, content, requests, error>>

\* throw new Error("OpenAI response could not be parsed as JSON")
ThrowNotParsed ==
  /\ pc = "parse"
  /\ ~ ParseResponse(content).ok
  /\ error' = NotParsed
  /\ pc' = "threw"
  /\ UNCHANGED <<strategy, text, lines, idx, tasks, followUp, again, shown, apiKey, content, requests, result>>

\* handleAnalyze: if (data?.followUp) data.followUp = cleanFollowUp(data.followUp)
Show ==
  /\ pc = "returned"
  /\ shown' = IF result.followUp # << >> THEN cleanFollowUp(result.followUp)
              ELSE result.followUp
  /\ pc' = "shown"
  /\ UNCHANGED <<strategy, text, lines, idx, tasks, followUp, again, apiKey, content, requests, error, result>>

Next ==
  \/ Split \/ PushTask \/ SkipLine \/ Fallback \/ Compose
  \/ ThrowKeyNotSet \/ SendRequest \/ FetchRejects \/ ThrowNotOk
  \/ ReceiveContent \/ ReturnParsed \/ ThrowNotParsed
  \/ Show

Spec == Init /\ [][Next]_vars

(***************************************************************************)
(* tidy on its own: a text is tidied, the result tidied again and passed   *)
(* through cleanFollowUp.                                                  *)
(***************************************************************************)
MaxTidyLen == 5

TidyAlphabet == {" ", "\n", ".", ",", "a"}

TidyTexts == SeqsUpTo(TidyAlphabet, MaxTidyLen)

InitTidy ==
  /\ strategy = "tidy"
  /\ pc = "tidy"
  /\ text \in TidyTexts
  /\ lines = << >>
  /\ idx = 1
  /\ tasks = << >>
  /\ followUp = None
  /\ again = None
  /\ shown = None
  /\ apiKey = << >>
  /\ content = None
  /\ requests = << >>
  /\ error = NoError
  /\ result = NoResult

TidyOnce ==
  /\ pc = "tidy"
  /\ followUp' = tidy(text)
  /\ pc' = "tidied"
  /\ UNCHANGED <<strategy, text, lines, idx, tasks, again, shown, apiKey, content, requests, error, result>>

TidyAgain ==
  /\ pc = "tidied"
  /\ again' = tidy(followUp)
  /\ pc' = "retidied"
  /\ UNCHANGED <<strategy, text, lines, idx, tasks, followUp, shown, apiKey, content, requests, error, result>>

CleanAgain ==
  /\ pc = "retidied"
  /\ shown' = cleanFollowUp(followUp)
  /\ pc' = "cleaned"
  /\ UNCHANGED <<strategy, text, lines, idx, tasks, followUp, again, apiKey, content, requests, error, result>>

NextTidy == TidyOnce \/ TidyAgain \/ CleanAgain

SpecTidy == InitTidy /\ [][NextTidy]_vars

(***************************************************************************)
(* Properties.                                                             *)
(***************************************************************************)
HeuristicReturned == strategy = "heuristic" /\ pc \in {"returned", "shown"}

ModelParsed == strategy = "model" /\ content # None /\ pc \in {"returned", "shown", "threw"}

\* the action lines of the call, in order: the k-th task was pushed for the k-th
ActionLines == SelectSeq(lines, IsActionLine)

\* sub occurs in s as one contiguous piece
Contains(s, sub) ==
  \E i \in 1..(Len(s) - Len(sub) + 1) : SubSeq(s, i, i + Len(sub) - 1) = sub

EndsWith(s, sub) ==
  Len(s) >= Len(sub) /\ SubSeq(s, Len(s) - Len(sub) + 1, Len(s)) = sub

\* action, please, will, assign, assigned, due, deliver, todo
TriggerWords == { <<"a","c","t","i","o","n">>, <<"p","l","e","a","s","e">>, <<"w","i","l","l">>, <<"a","s","s","i","g","n">>, <<"a","s","s","i","g","n","e","d">>,
                  <<"d","u","e">>, <<"d","e","l","i","v","e","r">>, <<"t","o","d","o">> }

\* the line holds a trigger keyword with no word character on either side
HoldsTriggerWord(line) ==
  \E w \in TriggerWords : \E i \in 1..(Len(line) - Len(w) + 1) :
    /\ \A k \in 1..Len(w) : SameFold(line[i + k - 1], w[k])
    /\ i = 1 \/ ~ IsWordChar(line[i - 1])
    /\ i + Len(w) > Len(line) \/ ~ IsWordChar(line[i + Len(w)])

ExpectedActionLine(line) == line[1] \in {"-", "*"} \/ HoldsTriggerWord(line)

\* C1: when mockExtract has returned, its tasks are the Tasks of the action
\* lines of the text (trimmed non-empty lines that start with a bullet or hold
\* a trigger keyword as a whole word), one each and in the order of the text;
\* with no action line they are exactly the fallback Task, which has no
\* assignee and no due.  So there is always at least one task.
C1_OneTaskPerActionLine ==
  HeuristicReturned =>
    LET A == SelectSeq(SplitLines(text), ExpectedActionLine)
    IN  /\ Len(result.tasks) >= 1
        /\ IF A = << >>
           THEN result.tasks = <<[title |-> FallbackTitle, assignee |-> None, due |-> None]>>
           ELSE /\ Len(result.tasks) = Len(A)
                /\ \A k \in 1..Len(A) : result.tasks[k] = TaskOf(A[k])

\* two or more tasks in order, a line skipped, and a line that is an action
\* line both by its bullet and by a keyword
C1_Witness ==
  /\ HeuristicReturned
  /\ Len(result.tasks) >= 2
  /\ result.tasks[1] # result.tasks[2]
  /\ Len(lines) > Len(result.tasks)
  /\ \E k \in 1..Len(lines) : StartsWithBullet(lines[k]) /\ HasKeyword(lines[k])

\* C2: every Task mockExtract returns has a non-empty title, also a Task made
\* from a line that is a bullet marker only.
C2_TitleNonEmpty ==
  HeuristicReturned => \A k \in 1..Len(result.tasks) : result.tasks[k].title # << >>

\* C3 as stated: every returned result, of either strategy, has non-empty
\* tasks and a non-empty followUp.
C3_ResultNonEmpty ==
  pc \in {"returned", "shown"} => result.tasks # << >> /\ result.followUp # << >>

\* C3 amended: a result of mockExtract has non-empty tasks and a non-empty
\* followUp; a result of callOpenAIExtract has empty tasks when the content
\* holds no tasks array and an empty followUp when it holds no followUp string.
C3_HeuristicNonEmpty ==
  /\ HeuristicReturned => result.tasks # << >> /\ result.followUp # << >>
  /\ (strategy = "model" /\ pc \in {"returned", "shown"}) =>
       /\ (\A i \in 1..Len(content) : content[i] # "[task]") => result.tasks = << >>
       /\ (\A i \in 1..Len(content) : content[i] # "\"ok  .\"") => result.followUp = << >>

\* mockExtract returned the fallback Task for a text with no action line
C3_Witness ==
  /\ HeuristicReturned
  /\ ActionLines = << >>
  /\ text # << >>
  /\ result.tasks = <<FallbackTask>>
  /\ result.followUp # << >>

\* "assigned to", whitespace and a NAME (an uppercase letter, then letters)
\* start at index i of s
ExplicitNameAt(s, i) ==
  /\ WordBoundary(s, i)
  /\ MatchAt(s, i, <<"a","s","s","i","g","n","e","d"," ","t","o">>)
  /\ LET q == SpaceRunEnd(s, i + 11)
     IN  q > i + 11 /\ q <= Len(s) /\ s[q] \in Upper
                    /\ RunEnd(s, q, Upper \cup Lower) >= q + 2

ExplicitName(s, i) ==
  LET q == SpaceRunEnd(s, i + 11) IN SubSeq(s, q, RunEnd(s, q, Upper \cup Lower) - 1)

\* C4: when an action line holds an explicit "Assigned to NAME" phrase, the
\* assignee of its Task is that NAME, whatever comes before the phrase; the
\* line "- Action: Ship the report by Monday. Assigned to Priya." gives Priya.
C4_ExplicitPhraseWins ==
  HeuristicReturned =>
    \A k \in 1..Len(ActionLines) :
      LET c == StripBullet(ActionLines[k])
          E == {i \in 1..Len(c) : ExplicitNameAt(c, i)}
      IN  /\ E # {} => result.tasks[k].assignee = ExplicitName(c, Leftmost(E))
          /\ ActionLines[k] = PriyaLine => result.tasks[k].assignee = <<"P","r","i","y","a">>

\* the titles joined by "; "
RECURSIVE TitlesJoined(_)
TitlesJoined(ts) ==
  IF Len(ts) = 0 THEN << >>
  ELSE IF Len(ts) = 1 THEN ts[1].title
  ELSE TitlesJoined(SubSeq(ts, 1, Len(ts) - 1)) \o <<";", " ">> \o ts[Len(ts)].title

\* "Please confirm owners and timelines."
ClosingRequest == <<"P","l","e","a","s","e"," ","c","o","n","f","i","r","m"," ","o","w","n","e","r","s"," ","a","n","d"," ","t","i","m","e","l","i","n","e","s",".">>

\* C5 as stated: the followUp of mockExtract holds the titles of the returned
\* tasks, as they are, joined by "; " as one contiguous piece, and ends with
\* the closing request.
C5_FollowUpHoldsTitles ==
  HeuristicReturned =>
    /\ Contains(result.followUp, TitlesJoined(result.tasks))
    /\ EndsWith(result.followUp, ClosingRequest)

\* C5 amended: the followUp holds, as one contiguous piece, the joined titles
\* as tidy leaves them (so the joined titles themselves whenever tidy does not
\* change them), and ends with the closing request.
C5_FollowUpHoldsTidiedTitles ==
  HeuristicReturned =>
    LET J == TitlesJoined(result.tasks)
    IN  /\ Contains(result.followUp, tidy(J))
        /\ tidy(J) = J => Contains(result.followUp, J)
        /\ EndsWith(result.followUp, ClosingRequest)

\* two titles, and tidy changes their join
C5_Witness ==
  /\ HeuristicReturned
  /\ Len(result.tasks) >= 2
  /\ tidy(TitlesJoined(result.tasks)) # TitlesJoined(result.tasks)
  /\ result.tasks[1].title # << >>

\* C6: tidy applied to its own result changes nothing, and neither does
\* cleanFollowUp applied to a result of tidy.
C6_TidyIdempotent ==
  pc = "cleaned" => again = followUp /\ shown = followUp

\* a text that tidy changed, tidied twice and cleaned
C6_Witness ==
  /\ pc = "cleaned"
  /\ followUp # text
  /\ Len(followUp) >= 2
  /\ \E i \in 1..Len(text) : IsSpace(text[i])
  /\ \E i \in 1..Len(text) : text[i] = "."

\* the lexemes a..b of t are one JSON object
IsObjectAt(t, a, b) ==
  /\ a <= b
  /\ JsonParse(SubSeq(t, a, b)).ok
  /\ JsonParse(SubSeq(t, a, b)).val.kind = "object"

\* C7: after a success response, the call returns when the content is a JSON
\* object or prose followed by a JSON object, and fails with "could not be
\* parsed" when the content holds no JSON object anywhere.
C7_ParseStage ==
  ModelParsed =>
    /\ IsObjectAt(content, 1, Len(content)) => pc # "threw"
    /\ (\E a \in 2..Len(content) : IsObjectAt(content, a, Len(content))) => pc # "threw"
    /\ (\A a \in 1..Len(content) : \A b \in a..Len(content) : ~ IsObjectAt(content, a, b))
         => pc = "threw" /\ error = NotParsed

\* C8: without a credential the call fails with the configuration error and
\* no request is ever issued; every request issued carries the credential;
\* the configuration error is not the error of a non-success response; and a
\* call issues at most one request.
C8_NoRequestWithoutKey ==
  strategy = "model" =>
    /\ apiKey = << >> => requests = << >> /\ pc \in {"call", "threw"}
    /\ (apiKey = << >> /\ pc = "threw") => error = KeyNotSet /\ error # OpenAIError
    /\ \A k \in 1..Len(requests) : requests[k].bearer # << >>
    /\ error = KeyNotSet => requests = << >>
    /\ Len(requests) <= 1

\* the call without a credential has thrown
C8_Witness ==
  /\ strategy = "model"
  /\ apiKey = << >>
  /\ pc = "threw"
  /\ error = KeyNotSet
  /\ requests = << >>

\* C9: the title of an action line whose cleaned text is longer than 250
\* characters is 250 characters long, ends with "..." and starts with the
\* first 247 characters of the cleaned text; otherwise the title is the
\* cleaned text.  No title is longer than 250 characters.
C9_TitleTruncated ==
  HeuristicReturned =>
    /\ \A k \in 1..Len(ActionLines) :
         LET c == StripBullet(ActionLines[k])
             t == result.tasks[k].title
         IN  IF Len(c) > 250
             THEN /\ Len(t) = 250
                  /\ SubSeq(t, 248, 250) = <<".", ".", ".">>
                  /\ SubSeq(t, 1, 247) = SubSeq(c, 1, 247)
             ELSE t = c
    /\ \A k \in 1..Len(result.tasks) : Len(result.tasks[k].title) <= 250

\* a title that was cut
C9_Witness ==
  /\ HeuristicReturned
  /\ \E k \in 1..Len(ActionLines) :
       /\ Len(StripBullet(ActionLines[k])) > 250
       /\ Len(result.tasks[k].title) = 250

\* a standalone capitalized word of three or more letters, the rest lowercase
HasCapitalizedWord(s) ==
  \E i \in 1..Len(s) : \E j \in (i + 2)..Len(s) :
    /\ s[i] \in Upper
    /\ \A k \in (i + 1)..j : s[k] \in Lower
    /\ i = 1 \/ ~ IsWordChar(s[i - 1])
    /\ j = Len(s) \/ ~ IsWordChar(s[j + 1])

\* "by", "assign to" or "assigned to", whitespace, then a capitalized NAME
HasPhraseWithName(s) ==
  \E w \in { <<"b","y">>, <<"a","s","s","i","g","n"," ","t","o">>, <<"a","s","s","i","g","n","e","d"," ","t","o">> } : \E i \in 1..Len(s) :
    /\ WordBoundary(s, i)
    /\ MatchAt(s, i, w)
    /\ LET q == SpaceRunEnd(s, i + Len(w))
       IN  q > i + Len(w) /\ q + 1 <= Len(s) /\ s[q] \in Upper /\ IsLetter(s[q + 1])

\* C10: an assignee that is set is a word of letters that starts with an
\* uppercase letter; a line with neither an explicit phrase with a capitalized
\* NAME nor a standalone capitalized word has no assignee.
C10_AssigneeIsName ==
  HeuristicReturned =>
    \A k \in 1..Len(ActionLines) :
      LET c == StripBullet(ActionLines[k])
          a == result.tasks[k].assignee
      IN  /\ a # None => a[1] \in Upper /\ \A j \in 1..Len(a) : IsLetter(a[j])
          /\ (~ HasPhraseWithName(c) /\ ~ HasCapitalizedWord(c)) => a = None

====
